---- MODULE Spec2Model ----
(***************************************************************************)
(* Model of the ski weather scraper (src/scraper/scraper.py): one run of   *)
(* SkiWeatherScraper.run(), i.e. fetch_pdf_url -> download_pdf ->          *)
(* extract_weather_data (cell by cell) -> save_data.                       *)
(*                                                                         *)
(* Text is modelled as a sequence of tokens: a token stands for a run of   *)
(* characters that the code never looks inside (a word, a number, one      *)
(* white-space character, one marker).  Python's str operations (in,       *)
(* strip, split, replace, startswith, +) are the corresponding sequence    *)
(* operations.  Python's None is the one-token sequence None, which no     *)
(* text contains.                                                          *)
(***************************************************************************)
EXTENDS Integers, Sequences, FiniteSets, TLC

VARIABLES
    pc,        \* position inside run()
    html,      \* the anchors of the page fetch_pdf_url parsed (NoHtml: none)
    pdf_url,   \* run(): pdf_url
    pdf_file,  \* run(): pdf_file
    layout,    \* the cell texts today's bulletin is made of
    row,       \* extract_weather_data: the row being visited
    idx,       \* extract_weather_data: 0-based index of the next cell of row
    data,      \* extract_weather_data / run(): the record (NoData: None)
    file,      \* the content of self.data_file on disk
    dumped,    \* the object save_data handed to json.dump (NoData: none yet)
    calls,     \* the stages run() has invoked, in order
    returned,  \* for each returned stage, whether its result was truthy
    log,       \* the messages logged so far (message kinds)
    response,  \* web: the response of GET /api/data being sent (NoResponse: none)
    schedule_file,  \* main(): the content of schedule.yaml
    config,    \* main(): config
    jobs,      \* the jobs registered with the schedule module, in order
    main_pc    \* position inside main()

web_vars == <<response>>

main_vars == <<schedule_file, config, jobs, main_pc>>

vars == <<pc, html, pdf_url, pdf_file, layout, row, idx, data, file, dumped,
          calls, returned, log, web_vars, main_vars>>

----------------------------------------------------------------------------
(* Bounds of the model *)

MaxAnchors == 2
MaxCells == 2
MaxEntries == 2
MaxTimes == 2

----------------------------------------------------------------------------
(* Python values *)

None == <<"<None>">>
NoData == <<>>
NoHtml == <<[text |-> None, href |-> None]>>

\* Python truthiness of an optional str: None and "" are falsy
Truthy(v) == v # None /\ v # <<>>

\* Python truthiness of an optional dict: None and {} are falsy
TruthyDict(d) == DOMAIN d # {}

Whitespace == {" ", "\n"}

\* sub in s, for a one-token sub
Contains(s, tok) == \E i \in 1..Len(s) : s[i] = tok

\* s.startswith(prefix)
StartsWith(s, prefix) ==
    /\ Len(prefix) <= Len(s)
    /\ SubSeq(s, 1, Len(prefix)) = prefix

RECURSIVE LStrip(_)
LStrip(s) == IF s # <<>> /\ Head(s) \in Whitespace THEN LStrip(Tail(s)) ELSE s

RECURSIVE RStrip(_)
RStrip(s) ==
    IF s # <<>> /\ s[Len(s)] \in Whitespace
    THEN RStrip(SubSeq(s, 1, Len(s) - 1))
    ELSE s

\* s.strip()
Strip(s) == RStrip(LStrip(s))

\* position of the first occurrence of the token sequence pat in s, 0 if none
Find(s, pat) ==
    LET hits == {i \in 1..(Len(s) - Len(pat) + 1) :
                    SubSeq(s, i, i + Len(pat) - 1) = pat}
    IN  IF hits = {} THEN 0 ELSE CHOOSE i \in hits : \A j \in hits : i <= j

RECURSIVE Split(_, _)
\* s.split(sep): the list of the parts of s between occurrences of sep
Split(s, sep) ==
    LET i == Find(s, sep)
    IN  IF i = 0 THEN <<s>>
        ELSE <<SubSeq(s, 1, i - 1)>> \o Split(SubSeq(s, i + Len(sep), Len(s)), sep)

RECURSIVE Replace(_, _, _)
\* s.replace(old, new)
Replace(s, old, new) ==
    LET i == Find(s, old)
    IN  IF i = 0 THEN s
        ELSE SubSeq(s, 1, i - 1) \o new
             \o Replace(SubSeq(s, i + Len(old), Len(s)), old, new)

\* d[k] = v on a Python dict: sets the key, adding it when absent
SetItem(d, k, v) == [x \in DOMAIN d \cup {k} |-> IF x = k THEN v ELSE d[x]]

----------------------------------------------------------------------------
(* Link locator: fetch_pdf_url *)

BASE_URL == <<"http", "s", "://www.altenberg.de">>

\* the tokens of anchor texts that hold a digit (char.isdigit())
DigitTokens == {"24.11.2025", "2025"}

AnchorTexts ==
    { <<"\n", "Tages-News", " ", "Statischer Link", "\n">>,
      <<"\n", "Tages-News", " ", "24.11.2025", "\n">>,
      <<"Other", " ", "Link">>,
      <<"News", " ", "2025">> }

AnchorHrefs ==
    { None,
      <<"/", "other">>,
      <<"/", "r/", "123", "?page=", "media%2Fdownload">>,
      <<"/", "dl", "?page=", "media/download">>,
      <<"/", "dl", "?page=", "media%2Fdownload">>,
      <<"http", "://example.com/", "file.pdf">> }

Anchors == [text : AnchorTexts, href : AnchorHrefs]

Pages == UNION {[1..n -> Anchors] : n \in 0..MaxAnchors}

\* soup.find_all("a", href=True)
find_all_a_href(page) == SelectSeq(page, LAMBDA a : a.href # None)

\* any(char.isdigit() for char in text)
HasDigit(text) == \E i \in 1..Len(text) : text[i] \in DigitTokens

\* "media%2Fdownload" in href or "media/download" in href or "r/" in href
HasDownloadMarker(href) ==
    \/ Contains(href, "media%2Fdownload")
    \/ Contains(href, "media/download")
    \/ Contains(href, "r/")

\* ResolveLink without the startswith("http") test
ResolveLink_AlwaysPrefixed(href) == BASE_URL \o href

\* link = href; if not link.startswith("http"): link = BASE_URL + link
ResolveLink(href) == IF StartsWith(href, <<"http">>) THEN href ELSE BASE_URL \o href

\* the first branch of the loop body: the download-link test
IsDownloadLink(text, href) == Contains(text, "Tages-News") /\ HasDownloadMarker(href)

\* IsFallbackLink without the "Tages-News" test
IsFallbackLink_DigitOnly(text, href) == HasDigit(text)

\* the second branch of the loop body: the fallback test
IsFallbackLink(text, href) == Contains(text, "Tages-News") /\ HasDigit(text)

RECURSIVE FindLink(_)
\* the for loop of fetch_pdf_url over the anchors, and the return None after it
FindLink(anchors) ==
    IF anchors = <<>> THEN None
    ELSE LET text == Strip(Head(anchors).text)
             href == Head(anchors).href
         IN  IF IsDownloadLink(text, href) THEN ResolveLink(href)
             ELSE IF IsFallbackLink(text, href) THEN ResolveLink(href)
             ELSE FindLink(Tail(anchors))

\* fetch_pdf_url on a page that was fetched and parsed
LocateLink(page) == FindLink(find_all_a_href(page))

----------------------------------------------------------------------------
(* Cell field extractor: _extract_from_cell *)

FieldKeys ==
    {"date", "temperature", "weather_condition", "snow_depth", "snow_type",
     "last_snowfall", "update_time"}

Unknown == <<"Unknown">>

\* SeedRecord with a key forgotten
SeedRecord_MissingKey == [k \in FieldKeys \ {"update_time"} |-> Unknown]

\* the seeded record of extract_weather_data
SeedRecord == [k \in FieldKeys |-> Unknown]

\* ix + 1 < len(rw) and rw[ix + 1]   (ix is 0-based, rw is 1-based here)
HasNextCell(ix, rw) == ix + 1 < Len(rw) /\ Truthy(rw[ix + 2])

\* rw[ix + 1]
NextCell(ix, rw) == rw[ix + 2]

\* if "TAGES-NEWS" in cell: data["date"] = cell.replace("TAGES-NEWS - ", "").strip()
DateValue(cell) == Strip(Replace(cell, <<"TAGES-NEWS", " ", "-", " ">>, <<>>))

extract_date(cell, d) ==
    IF Contains(cell, "TAGES-NEWS") THEN SetItem(d, "date", DateValue(cell)) ELSE d

RECURSIVE TemperatureLines(_, _, _)
\* for i, line in enumerate(lines): ... data["temperature"] = candidate
TemperatureLines(lines, i, d) ==
    IF i > Len(lines) THEN d
    ELSE IF Contains(lines[i], "Temperatur") /\ i + 1 <= Len(lines)
              /\ Contains(Strip(lines[i + 1]), "°C")
         THEN TemperatureLines(lines, i + 1, SetItem(d, "temperature", Strip(lines[i + 1])))
         ELSE TemperatureLines(lines, i + 1, d)

\* the next-cell part without the test for "°C"
TemperatureNextCell_AnyText(ix, rw, d) ==
    IF HasNextCell(ix, rw)
    THEN SetItem(d, "temperature", Strip(NextCell(ix, rw)))
    ELSE d

\* the next-cell part of the "Temperatur" block
TemperatureNextCell(ix, rw, d) ==
    IF HasNextCell(ix, rw) /\ Contains(NextCell(ix, rw), "°C")
    THEN SetItem(d, "temperature", Strip(NextCell(ix, rw)))
    ELSE d

\* the same-cell part of the "Temperatur" block
TemperatureSameCell(cell, d) ==
    IF d["temperature"] = Unknown
    THEN TemperatureLines(Split(cell, <<"\n">>), 1, d)
    ELSE d

extract_temperature(cell, ix, rw, d) ==
    IF Contains(cell, "Temperatur")
    THEN TemperatureSameCell(cell, TemperatureNextCell(ix, rw, d))
    ELSE d

extract_update_time(cell, ix, rw, d) ==
    IF Contains(cell, "Uhrzeit:")
    THEN IF Contains(Split(cell, <<"Uhrzeit:">>)[2], "Uhr")
         THEN SetItem(d, "update_time", Strip(Split(cell, <<"Uhrzeit:">>)[2]))
         ELSE IF HasNextCell(ix, rw)
              THEN SetItem(d, "update_time", Strip(NextCell(ix, rw)))
              ELSE d
    ELSE d

\* the blocks written so that a field once set is kept
extract_after_marker_FirstWins(marker, key, cell, ix, rw, d) ==
    IF Contains(cell, marker) /\ d[key] = Unknown
    THEN IF HasNextCell(ix, rw)
         THEN SetItem(d, key, Strip(NextCell(ix, rw)))
         ELSE LET parts == Split(cell, <<marker>>)
              IN  IF Len(parts) > 1 THEN SetItem(d, key, Strip(parts[2])) ELSE d
    ELSE d

\* the blocks of "Wetterlage:", "Schneeart:" and "letzter Schneefall:":
\* the next cell, else the text after the marker
extract_after_marker(marker, key, cell, ix, rw, d) ==
    IF Contains(cell, marker)
    THEN IF HasNextCell(ix, rw)
         THEN SetItem(d, key, Strip(NextCell(ix, rw)))
         ELSE LET parts == Split(cell, <<marker>>)
              IN  IF Len(parts) > 1 THEN SetItem(d, key, Strip(parts[2])) ELSE d
    ELSE d

RECURSIVE SnowDepthLines(_, _, _)
\* for i, line in enumerate(lines): ... data["snow_depth"] = lines[i + 1].strip()
SnowDepthLines(lines, i, d) ==
    IF i > Len(lines) THEN d
    ELSE IF Contains(lines[i], "durchschnittliche Schneehöhe") /\ i + 1 <= Len(lines)
         THEN SnowDepthLines(lines, i + 1, SetItem(d, "snow_depth", Strip(lines[i + 1])))
         ELSE SnowDepthLines(lines, i + 1, d)

extract_snow_depth(cell, ix, rw, d) ==
    IF Contains(cell, "durchschnittliche Schneehöhe")
    THEN IF HasNextCell(ix, rw)
         THEN SetItem(d, "snow_depth", Strip(NextCell(ix, rw)))
         ELSE SnowDepthLines(Split(cell, <<"\n">>), 1, d)
    ELSE d

\* s[i] raises IndexError (i is a 0-based index, i >= 0)
IndexRaises(s, i) == i >= Len(s)

\* evaluating "idx + 1 < len(row) and row[idx + 1]" raises: the subscript is
\* reached only when the comparison before it holds
NextCellRaises(ix, rw) == ix + 1 < Len(rw) /\ IndexRaises(rw, ix + 1)

\* the markers whose block starts by looking at the next cell
NeighbourMarkers ==
    {"Temperatur", "Wetterlage:", "durchschnittliche Schneehöhe", "Schneeart:",
     "letzter Schneefall:"}

\* _extract_from_cell(cell, ix, rw, data) raises: one of its subscripts on row
\* or on cell.split("Uhrzeit:") is out of range (lines[i + 1] and parts[1] are
\* taken only under i + 1 < len(lines) and len(parts) > 1)
CellRaises(cell, ix, rw) ==
    \/ /\ \E m \in NeighbourMarkers : Contains(cell, m)
       /\ NextCellRaises(ix, rw)
    \/ /\ Contains(cell, "Uhrzeit:")
       /\ \/ IndexRaises(Split(cell, <<"Uhrzeit:">>), 1)
          \/ /\ ~Contains(Split(cell, <<"Uhrzeit:">>)[2], "Uhr")
             /\ NextCellRaises(ix, rw)

\* _extract_from_cell(cell, ix, rw, data): the seven blocks in source order
extract_from_cell(cell, ix, rw, d) ==
    LET d1 == extract_date(cell, d)
        d2 == extract_temperature(cell, ix, rw, d1)
        d3 == extract_update_time(cell, ix, rw, d2)
        d4 == extract_after_marker("Wetterlage:", "weather_condition", cell, ix, rw, d3)
        d5 == extract_snow_depth(cell, ix, rw, d4)
        d6 == extract_after_marker("Schneeart:", "snow_type", cell, ix, rw, d5)
    IN  extract_after_marker("letzter Schneefall:", "last_snowfall", cell, ix, rw, d6)

----------------------------------------------------------------------------
(* The bulletins: cell texts as pdfplumber's extract_tables() delivers them *)

DateCells ==
    { <<"TAGES-NEWS", " ", "-", " ", "22", ".", "11", ".", "2025">>,
      <<"TAGES-NEWS", " ", "-", " ", "01", ".", "02", ".", "2030">>,
      <<"TAGES-NEWS", " ", "-", " ", "not-a-date">> }

TemperatureCells ==
    { <<"Temperatur">>,
      <<"Temperatur", "\n", "-5", "°C">>,
      <<" ", "3", "°C">>,
      <<"kalt">> }

TimeCells ==
    { <<"Uhrzeit:", " ", "08:00", "Uhr">>,
      <<"Uhrzeit:">>,
      <<"09:30", " ">> }

ConditionCells ==
    { <<"Wetterlage:">>,
      <<"Wetterlage:", " ", "sonnig">>,
      <<" ", "bedeckt">> }

DepthCells ==
    { <<"durchschnittliche Schneehöhe">>,
      <<"durchschnittliche Schneehöhe", "\n", "20", " ", "cm">>,
      <<"35", " ", "cm">> }

TypeCells ==
    { <<"Schneeart:">>,
      <<"Schneeart:", " ", "Pulver">>,
      <<"Nass">> }

SnowfallCells ==
    { <<"letzter Schneefall:">>,
      <<"letzter Schneefall:", " ", "20.11.2025">>,
      <<"18.11.2025">> }

\* cells that carry several markers at once, or another field's marker as value
MixedCells ==
    { <<"Temperatur", "\n", "-5", "°C", "\n", "Uhrzeit:", " ", "08:00", "Uhr">>,
      <<"Uhrzeit:">>,
      <<"Schneeart:", " ", "Pulver", "Wetterlage:">> }

\* a first page without any text cell: no tables, no rows, or only absent and
\* empty cells
EmptyCells == {}

\* no cell stream was extracted (yet)
NoLayout == {None}

\* a bulletin is laid out with the cells of one of these families
Layouts ==
    { DateCells, TemperatureCells, TimeCells, ConditionCells, DepthCells,
      TypeCells, SnowfallCells, MixedCells, EmptyCells }

\* a cell of a row: a text of the layout, or an absent (None) or empty cell
Cells(lay) == lay \cup {None, <<>>}

Rows(lay) == UNION {[1..n -> Cells(lay)] : n \in 0..MaxCells}

----------------------------------------------------------------------------
(* The data file *)

Absent == [kind |-> "absent", doc |-> NoData, written |-> 0]

\* a complete JSON document holding the object d
JsonFile(d) == [kind |-> "json", doc |-> d, written |-> Cardinality(DOMAIN d)]

\* a file opened with "w" into which only the first n members of d were written
PartialFile(d, n) == [kind |-> "partial", doc |-> d, written |-> n]

\* the document an earlier run saved
PriorRecord ==
    [k \in FieldKeys |->
        IF k = "date" THEN <<"21", ".", "11", ".", "2025">> ELSE Unknown]

----------------------------------------------------------------------------
(* The dashboard (src/web/main.py): GET /api/data *)

\* no request is being answered
NoResponse == <<>>

\* {"error": "Weather data not available yet. Please wait for the scraper to run."}
NotAvailable ==
    [error |-> <<"Weather data not available yet. Please wait for the ",
                 "scraper", " to run.">>]

\* {"error": "Could not load weather data."}
CouldNotLoad == [error |-> <<"Could not load weather data.">>]

\* file_path.exists()
Exists(f) == f.kind # "absent"

\* json.load(f) raises: the document was cut off before its closing brace
JsonLoadRaises(f) == f.kind = "partial"

\* json.load(f) of a complete document: the object json.dump wrote, key by key
\* (the escapes json.dump puts in are taken out again)
json_load(f) == [k \in DOMAIN f.doc |-> f.doc[k]]

load_weather_data(f) ==
    IF Exists(f)
    THEN IF JsonLoadRaises(f) THEN CouldNotLoad ELSE json_load(f)
    ELSE NotAvailable

\* data.get("error", "")
GetError(d) == IF "error" \in DOMAIN d THEN d.error ELSE <<>>

\* the test of get_data without its exemption of the "scraper" message
IsLoadFailure_AnyError(d) == "error" \in DOMAIN d

\* if "error" in data and "scraper" not in data.get("error", ""):
IsLoadFailure(d) == "error" \in DOMAIN d /\ ~Contains(GetError(d), "scraper")

\* JSONResponse(content=..., status_code=...); the default status is 200
JSONResponse(content, status_code) ==
    [content |-> content, status_code |-> status_code]

\* the documents the scraper writes: what _extract_from_cell makes of one cell
\* of a bulletin, the all-"Unknown" record, and the record of an earlier run
SavedRecords ==
    {SeedRecord, PriorRecord} \cup
    { extract_from_cell(c, 0, <<c>>, SeedRecord) :
          c \in {x \in UNION Layouts : ~CellRaises(x, 0, <<x>>)} }

----------------------------------------------------------------------------
(* The schedule: load_schedule_config, setup_schedule *)

\* the 4 of default_config and of schedule.every(4).hours
DefaultInterval == 4

\* main() has not loaded the configuration
NoConfig == <<>>

\* a job of the schedule module: every(interval).<unit>[.at(at_time)].do(job_func)
Job(interval, unit, at_time) ==
    [interval |-> interval, unit |-> unit, at_time |-> at_time,
     job_func |-> "scraper.run"]

\* schedule.every(4).hours.do(scraper.run)
EveryFourHours == Job(DefaultInterval, "hours", "")

\* default_config = {"default": {"interval": 4, "unit": "hours"}}, as its
\* items in order
default_config ==
    <<[key |-> "default",
       value |-> [interval |-> DefaultInterval, unit |-> "hours"]]>>

Units == {"hours", "minutes", "days"}

\* "08:00" is a time of day, "8am" is none for schedule's at()
TimeStrings == {"08:00", "8am"}

TimesLists == UNION {[1..n -> TimeStrings] : n \in 0..MaxTimes}

\* the values a key of schedule.yaml can have: nothing (null or {}, as <<>>),
\* a mapping with interval and unit, with interval only, with times, with
\* neither, a string, a number
ScheduleValues ==
    {<<>>}
        \cup {[interval |-> 1, unit |-> u] : u \in Units \cup {"weeks"}}
        \cup {[interval |-> 1]}
        \cup {[times |-> t] : t \in TimesLists}
        \cup {[enabled |-> "yes"]}
        \cup {[scalar |-> "str"], [scalar |-> "int"]}

\* config.items() of the mappings of at most MaxEntries keys
Configs ==
    UNION { { [i \in 1..n |-> [key |-> ToString(i), value |-> vs[i]]] :
                  vs \in [1..n -> ScheduleValues] } : n \in 0..MaxEntries }

\* schedule.yaml: not there, not YAML, or a mapping (empty for an empty file)
MissingSchedule == [kind |-> "missing", doc |-> <<>>]

ScheduleFiles ==
    {MissingSchedule, [kind |-> "unparsable", doc |-> <<>>]}
        \cup {[kind |-> "yaml", doc |-> c] : c \in Configs}

\* load_schedule_config(config_file)
LoadedConfig(f) ==
    IF f.kind = "missing" THEN default_config
    ELSE IF f.kind = "unparsable" THEN default_config
    ELSE IF f.doc = <<>> THEN default_config
    ELSE f.doc

\* for key, value in config.items(): if value: ...; break  -- the position of
\* the first truthy value, 0 when there is none
ActiveIndex(c) ==
    IF \E i \in 1..Len(c) : TruthyDict(c[i].value)
    THEN CHOOSE i \in 1..Len(c) :
             /\ TruthyDict(c[i].value)
             /\ \A j \in 1..(i - 1) : ~TruthyDict(c[j].value)
    ELSE 0

\* "interval" in schedule_config raises TypeError: the value is a number
InRaises(v) == "scalar" \in DOMAIN v /\ v.scalar = "int"

\* k in schedule_config, for a mapping or a string that has no such part
Has(v, k) == "scalar" \notin DOMAIN v /\ k \in DOMAIN v

\* schedule.every(interval).<unit>.do(scraper.run), or the default for a unit
\* that is none of hours, minutes, days
IntervalJob(v) ==
    IF v.unit \in Units THEN Job(v.interval, v.unit, "") ELSE EveryFourHours

\* at(time_str) raises ScheduleValueError
AtRaises(t) == t = "8am"

\* for time_str in times: schedule.every().day.at(time_str).do(scraper.run)
TimedJobs(times) == [i \in 1..Len(times) |-> Job(1, "days", times[i])]

\* the times before the first one at() raises for
ValidPrefix(times) ==
    IF \E i \in 1..Len(times) : AtRaises(times[i])
    THEN SubSeq(times, 1,
                (CHOOSE i \in 1..Len(times) :
                     /\ AtRaises(times[i])
                     /\ \A j \in 1..(i - 1) : ~AtRaises(times[j])) - 1)
    ELSE times

----------------------------------------------------------------------------
(* The run *)

\* run(): if pdf_url:
has_pdf_url == Truthy(pdf_url)

\* what the downloaded bytes can be: no PDF at all, a PDF without pages, or
\* a bulletin with a first page
PdfFiles == {"BytesIO: not a PDF", "BytesIO: PDF without pages", "BytesIO: PDF"}

\* len(pdf.pages) of a file pdfplumber can open (one page stands for any more)
PageCount(f) == IF f = "BytesIO: PDF without pages" THEN 0 ELSE 1

\* NoPages with the test left out
NoPages_NotTested(f) == FALSE

\* if not pdf.pages:
NoPages(f) == PageCount(f) = 0

\* run(): if pdf_file:   (a BytesIO object is always truthy)
has_pdf_file == pdf_file # "None"

\* has_data that also wants a resolved field
has_data_SomeFieldKnown == \E k \in DOMAIN data : data[k] # Unknown

\* has_data without the test: save_data is called with whatever was returned
has_data_Always == TRUE

\* run(): if data:
has_data == TruthyDict(data)

Stages == <<"fetch_pdf_url", "download_pdf", "extract_weather_data", "save_data">>

\* Caught with save_data written without its try/except
Caught_NotInSaveData(stage) == stage # "save_data"

\* the body of the stage is inside a try ... except Exception
Caught(stage) ==
    stage \in {"fetch_pdf_url", "download_pdf", "extract_weather_data", "save_data"}

\* where run() stands after something was raised inside a stage: after the
\* stage's return when its except clause caught it, else the exception leaves
\* run() ("raised")
AfterRaise(stage, nextpc) == IF Caught(stage) THEN nextpc ELSE "raised"

\* the log after something was raised inside a stage: the except clause logs
ExceptLog(stage, msg) == IF Caught(stage) THEN log \cup {msg} ELSE log

NoRow == <<>>

\* the scraper before run()
RunInit ==
    /\ pc = "start"
    /\ html = NoHtml
    /\ pdf_url = None
    /\ pdf_file = "None"
    /\ layout = NoLayout
    /\ row = NoRow
    /\ idx = 0
    /\ data = NoData
    /\ file \in {Absent, JsonFile(PriorRecord)}
    /\ dumped = NoData
    /\ calls = <<>>
    /\ returned = <<>>
    /\ log = {}

\* main() calls scraper.run(); nobody has asked the dashboard yet
Init ==
    /\ RunInit
    /\ response = NoResponse
    /\ schedule_file = MissingSchedule
    /\ config = NoConfig
    /\ jobs = <<>>
    /\ main_pc = "run"

\* fetch_pdf_url(): requests.get or raise_for_status raises, or the page is
\* parsed and searched.  The two "Found PDF link" messages are one kind here.
\* The parsed page stays in html until the next stage starts.
fetch_pdf_url ==
    /\ pc = "start"
    /\ \/ /\ html' = NoHtml
          /\ pdf_url' = None
          /\ log' = ExceptLog("fetch_pdf_url", "error: Error fetching PDF URL")
          /\ pc' = AfterRaise("fetch_pdf_url", "fetched")
       \/ \E page \in Pages :
             /\ html' = page
             /\ pdf_url' = LocateLink(page)
             /\ log' = log \cup {IF LocateLink(page) = None
                                 THEN "warning: PDF link not found."
                                 ELSE "info: Found PDF link"}
             /\ pc' = "fetched"
    /\ calls' = Append(calls, "fetch_pdf_url")
    /\ returned' = Append(returned, Truthy(pdf_url'))
    /\ UNCHANGED <<pdf_file, layout, row, idx, data, file, dumped>>
    /\ UNCHANGED <<web_vars, main_vars>>

\* run(): if pdf_url: pdf_file = self.download_pdf(pdf_url)
download_pdf ==
    /\ pc = "fetched"
    /\ has_pdf_url
    /\ \/ /\ pdf_file' \in PdfFiles
          /\ log' = log
          /\ pc' = "downloaded"
       \/ /\ pdf_file' = "None"
          /\ log' = ExceptLog("download_pdf", "error: Error downloading PDF")
          /\ pc' = AfterRaise("download_pdf", "downloaded")
    /\ html' = NoHtml
    /\ calls' = Append(calls, "download_pdf")
    /\ returned' = Append(returned, pdf_file' # "None")
    /\ UNCHANGED <<pdf_url, layout, row, idx, data, file, dumped>>
    /\ UNCHANGED <<web_vars, main_vars>>

\* run(): if pdf_file: data = self.extract_weather_data(pdf_file), up to the
\* seeding of the record: something raises (pdfplumber.open on bytes that are
\* no PDF, pdf.pages[0] on an empty page list, extract_tables on a page it
\* cannot read), the PDF has no pages, or the tables of the first page are
\* extracted
extract_open ==
    /\ pc = "downloaded"
    /\ has_pdf_file
    /\ calls' = Append(calls, "extract_weather_data")
    /\ \/ /\ \/ pdf_file = "BytesIO: not a PDF"
             \/ ~NoPages(pdf_file)
          /\ log' = ExceptLog("extract_weather_data", "error: Error extracting data")
          /\ data' = NoData
          /\ pc' = AfterRaise("extract_weather_data", "extracted")
          /\ returned' = Append(returned, FALSE)
          /\ UNCHANGED layout
       \/ /\ pdf_file # "BytesIO: not a PDF"
          /\ NoPages(pdf_file)
          /\ log' = log \cup {"error: PDF has no pages."}
          /\ data' = NoData
          /\ pc' = "extracted"
          /\ returned' = Append(returned, FALSE)
          /\ UNCHANGED layout
       \/ /\ pdf_file # "BytesIO: not a PDF"
          /\ ~NoPages(pdf_file)
          /\ PageCount(pdf_file) > 0
          /\ layout' \in Layouts
          /\ data' = SeedRecord
          /\ pc' = "tables"
          /\ UNCHANGED <<log, returned>>
    /\ UNCHANGED <<html, pdf_url, pdf_file, row, idx, file, dumped>>
    /\ UNCHANGED <<web_vars, main_vars>>

\* for table in tables: one more table
next_table ==
    /\ pc = "tables"
    /\ pc' = "rows"
    /\ UNCHANGED <<html, pdf_url, pdf_file, layout, row, idx, data, file, dumped,
                   calls, returned, log>>
    /\ UNCHANGED <<web_vars, main_vars>>

\* for row in table: one more row
next_row ==
    /\ pc = "rows"
    /\ \E r \in Rows(layout) :
          /\ row' = r
          /\ pc' = IF Len(r) = 0 THEN "rows" ELSE "cells"
    /\ idx' = 0
    /\ UNCHANGED <<html, pdf_url, pdf_file, layout, data, file, dumped,
                   calls, returned, log>>
    /\ UNCHANGED <<web_vars, main_vars>>

\* the table has no more rows
end_table ==
    /\ pc = "rows"
    /\ pc' = "tables"
    /\ UNCHANGED <<html, pdf_url, pdf_file, layout, row, idx, data, file, dumped,
                   calls, returned, log>>
    /\ UNCHANGED <<web_vars, main_vars>>

\* for idx, cell in enumerate(row): if not cell: continue; else
\* _extract_from_cell, whose exception ends extract_weather_data in its
\* except clause (log, return None)
visit_cell ==
    /\ pc = "cells"
    /\ idx < Len(row)
    /\ IF Truthy(row[idx + 1]) /\ CellRaises(row[idx + 1], idx, row)
       THEN /\ data' = NoData
            /\ log' = ExceptLog("extract_weather_data", "error: Error extracting data")
            /\ pc' = AfterRaise("extract_weather_data", "extracted")
            /\ returned' = Append(returned, FALSE)
            /\ UNCHANGED idx
       ELSE /\ data' = IF Truthy(row[idx + 1])
                       THEN extract_from_cell(row[idx + 1], idx, row, data)
                       ELSE data
            /\ idx' = idx + 1
            /\ pc' = IF idx + 1 < Len(row) THEN "cells" ELSE "rows"
            /\ UNCHANGED <<log, returned>>
    /\ UNCHANGED <<html, pdf_url, pdf_file, layout, row, file, dumped, calls>>
    /\ UNCHANGED <<web_vars, main_vars>>

\* no more tables: logger.info(f"Extracted data: {data}"); return data
extract_return ==
    /\ pc = "tables"
    /\ pc' = "extracted"
    /\ row' = NoRow
    /\ idx' = 0
    /\ log' = log \cup {"info: Extracted data"}
    /\ returned' = Append(returned, TruthyDict(data))
    /\ UNCHANGED <<html, pdf_url, pdf_file, layout, data, file, dumped, calls>>
    /\ UNCHANGED <<web_vars, main_vars>>

\* run(): if data: self.save_data(data).  os.makedirs or open raises, json.dump
\* raises after n members went to the file opened with "w", or all is written
save_data ==
    /\ pc = "extracted"
    /\ has_data
    /\ \/ /\ file' = JsonFile(data)
          /\ dumped' = data
          /\ log' = log \cup {"info: Data saved successfully."}
          /\ pc' = "done"
       \/ /\ \E n \in 0..(Cardinality(DOMAIN data) - 1) : file' = PartialFile(data, n)
          /\ dumped' = data
          /\ log' = ExceptLog("save_data", "error: Error saving data")
          /\ pc' = AfterRaise("save_data", "done")
       \/ /\ log' = ExceptLog("save_data", "error: Error saving data")
          /\ pc' = AfterRaise("save_data", "done")
          /\ UNCHANGED <<file, dumped>>
    /\ calls' = Append(calls, "save_data")
    /\ returned' = Append(returned, TRUE)
    /\ UNCHANGED <<html, pdf_url, pdf_file, layout, row, idx, data>>
    /\ UNCHANGED <<web_vars, main_vars>>

\* run() returns without calling the next stage: its if found a falsy result
run_return ==
    /\ \/ pc = "fetched" /\ ~has_pdf_url
       \/ pc = "downloaded" /\ ~has_pdf_file
       \/ pc = "extracted" /\ ~has_data
    /\ pc' = "done"
    /\ UNCHANGED <<html, pdf_url, pdf_file, layout, row, idx, data, file, dumped,
                   calls, returned, log>>
    /\ UNCHANGED <<web_vars, main_vars>>

Next ==
    \/ fetch_pdf_url
    \/ download_pdf
    \/ extract_open
    \/ next_table
    \/ next_row
    \/ end_table
    \/ visit_cell
    \/ extract_return
    \/ save_data
    \/ run_return

Spec == Init /\ [][Next]_vars

----------------------------------------------------------------------------
(* The dashboard beside the scraper *)

\* GET /api/data: get_data() answers a request
get_data ==
    /\ response = NoResponse
    /\ LET d == load_weather_data(file) IN
           response' =
               IF IsLoadFailure(d)
               THEN IF ~Exists(file)
                    THEN JSONResponse(d, 404)
                    ELSE JSONResponse(d, 500)
               ELSE JSONResponse(d, 200)
    /\ UNCHANGED <<pc, html, pdf_url, pdf_file, layout, row, idx, data, file,
                   dumped, calls, returned, log, main_vars>>

\* the response has gone to the client; the next request can be answered
deliver ==
    /\ response # NoResponse
    /\ response' = NoResponse
    /\ UNCHANGED <<pc, html, pdf_url, pdf_file, layout, row, idx, data, file,
                   dumped, calls, returned, log, main_vars>>

\* the scraper, running beside the dashboard, saves a record: save_data leaves
\* a complete document or one cut off after n members
scraper_saves ==
    /\ \E d \in SavedRecords :
           \/ file' = JsonFile(d)
           \/ \E n \in 0..(Cardinality(DOMAIN d) - 1) : file' = PartialFile(d, n)
    /\ UNCHANGED <<pc, html, pdf_url, pdf_file, layout, row, idx, data,
                   dumped, calls, returned, log, web_vars, main_vars>>

NextWeb ==
    \/ get_data
    \/ deliver
    \/ scraper_saves

SpecWeb == Init /\ [][NextWeb]_vars

----------------------------------------------------------------------------
(* main() after its first scraper.run() *)

\* main() is about to load the schedule; the variables of run() are not read
\* from here on and stay as they were
InitSchedule ==
    /\ RunInit
    /\ response = NoResponse
    /\ schedule_file \in ScheduleFiles
    /\ config = NoConfig
    /\ jobs = <<>>
    /\ main_pc = "load"

\* config = load_schedule_config()
load_schedule_config ==
    /\ main_pc = "load"
    /\ config' = LoadedConfig(schedule_file)
    /\ main_pc' = "setup"
    /\ UNCHANGED <<pc, html, pdf_url, pdf_file, layout, row, idx, data, file,
                   dumped, calls, returned, log, web_vars, schedule_file, jobs>>

\* setup_schedule(scraper, config): it returns to the loop of main(), or the
\* exception of `in` or of at() leaves main()
setup_schedule ==
    /\ main_pc = "setup"
    /\ LET i == ActiveIndex(config) IN
           IF i = 0
           THEN /\ jobs' = Append(jobs, EveryFourHours)
                /\ main_pc' = "loop"
           ELSE LET v == config[i].value IN
                    IF InRaises(v)
                    THEN /\ main_pc' = "raised"
                         /\ UNCHANGED jobs
                    ELSE IF Has(v, "interval") /\ Has(v, "unit")
                    THEN /\ jobs' = Append(jobs, IntervalJob(v))
                         /\ main_pc' = "loop"
                    ELSE IF Has(v, "times")
                    THEN /\ jobs' = jobs \o TimedJobs(ValidPrefix(v.times))
                         /\ main_pc' = IF ValidPrefix(v.times) = v.times
                                       THEN "loop" ELSE "raised"
                    ELSE /\ jobs' = Append(jobs, EveryFourHours)
                         /\ main_pc' = "loop"
    /\ UNCHANGED <<pc, html, pdf_url, pdf_file, layout, row, idx, data, file,
                   dumped, calls, returned, log, web_vars, schedule_file, config>>

NextSchedule ==
    \/ load_schedule_config
    \/ setup_schedule

SpecSchedule == InitSchedule /\ [][NextSchedule]_vars

----------------------------------------------------------------------------
(* Properties *)

\* a value of the record is a text: a sequence of tokens, never None
IsText(v) == v # None /\ DOMAIN v = 1..Len(v)

\* C1: whenever extract_weather_data holds or returns a record, after the
\* seeding and after every call of _extract_from_cell, the record has exactly
\* the seven keys and every value is a text ("Unknown" or an extracted text).
C1_SevenKeys ==
    data # NoData =>
        /\ DOMAIN data = FieldKeys
        /\ \A k \in FieldKeys : IsText(data[k])

\* a record was returned after _extract_from_cell set at least two fields
C1_Witness ==
    /\ pc = "extracted"
    /\ TruthyDict(data)
    /\ data["temperature"] # Unknown
    /\ data["update_time"] # Unknown

\* the positions of the anchors of a page whose text contains "Tages-News"
TagesNewsAnchors(page) == {i \in DOMAIN page : Contains(page[i].text, "Tages-News")}

\* the URL the locator is to return for an href: the href itself when it
\* starts with "http", else the base URL followed by the href
AbsoluteUrl(href) ==
    IF href # <<>> /\ Head(href) = "http"
    THEN href
    ELSE <<"http", "s", "://www.altenberg.de">> \o href

\* the page was fetched and parsed, and fetch_pdf_url has returned
Fetched == pc = "fetched" /\ html # NoHtml

\* C2: for a page whose "Tages-News" anchors are an undated one followed by a
\* dated one, fetch_pdf_url returns the resolved URL of the dated anchor,
\* whatever the href of the undated one.
C2_DatedLinkReturned ==
    Fetched =>
        \A i, j \in DOMAIN html :
            ( /\ i < j
              /\ TagesNewsAnchors(html) = {i, j}
              /\ html[i].href # None /\ html[j].href # None
              /\ ~HasDigit(html[i].text)
              /\ HasDigit(html[j].text) )
            => pdf_url = AbsoluteUrl(html[j].href)

\* C3: for a page whose only "Tages-News" anchor has a text without a digit,
\* fetch_pdf_url returns None, whatever the href of that anchor.
C3_StaticLinkSkipped ==
    Fetched =>
        \A i \in DOMAIN html :
            (TagesNewsAnchors(html) = {i} /\ ~HasDigit(html[i].text))
            => pdf_url = None

C5_NoTagesNewsNoLink ==
    (Fetched /\ TagesNewsAnchors(html) = {}) =>
        /\ pdf_url = None
        /\ "warning: PDF link not found." \in log
        /\ "error: Error fetching PDF URL" \notin log

\* a page without "Tages-News" that has an anchor with a download marker in
\* its href and a digit in its text
C5_Witness ==
    /\ Fetched
    /\ TagesNewsAnchors(html) = {}
    /\ \E i \in DOMAIN html :
          /\ html[i].href # None
          /\ HasDownloadMarker(html[i].href)
          /\ HasDigit(html[i].text)
    /\ pdf_url = None

\* the cell _extract_from_cell was last called on, if the last visited cell of
\* the current row was not skipped
LastCell == row[idx]

\* the extraction loop stands right after a call of _extract_from_cell
AfterCell ==
    /\ pc \in {"cells", "rows", "tables"}
    /\ idx >= 1 /\ idx <= Len(row)
    /\ Truthy(row[idx])

\* a text of the form DD.MM.YYYY
IsSourceDate(s) == Len(s) = 5 /\ s[2] = "." /\ s[4] = "."

\* a cell of the form "TAGES-NEWS - DD.MM.YYYY"
IsDatedCell(cell) ==
    /\ Len(cell) = 9
    /\ SubSeq(cell, 1, 4) = <<"TAGES-NEWS", " ", "-", " ">>
    /\ IsSourceDate(SubSeq(cell, 5, 9))

\* the ISO form YYYY-MM-DD of a text DD.MM.YYYY
IsoDate(s) == <<s[5], "-", s[3], "-", s[1]>>

\* C6: right after a cell of the form "TAGES-NEWS - DD.MM.YYYY" was processed,
\* the date field is the ISO form YYYY-MM-DD of that date, and the date field
\* of a record is never in the source's DD.MM.YYYY form.
C6_DateIsIso ==
    /\ (AfterCell /\ IsDatedCell(LastCell))
           => data["date"] = IsoDate(SubSeq(LastCell, 5, 9))
    /\ data # NoData => ~IsSourceDate(data["date"])

\* C7: processing a cell that contains "TAGES-NEWS" and whose text after the
\* prefix "TAGES-NEWS - " is no DD.MM.YYYY date leaves the date field as it was.
C7_UnparsableDateKept ==
    [][ ( /\ pc = "cells"
          /\ Truthy(row[idx + 1])
          /\ Contains(row[idx + 1], "TAGES-NEWS")
          /\ ~IsSourceDate(DateValue(row[idx + 1])) )
        => data'["date"] = data["date"] ]_vars

\* the stages were called in order, each at most once, each only after every
\* earlier one had returned a truthy result
StagesInOrder ==
    /\ Len(calls) <= Len(Stages)
    /\ calls = SubSeq(Stages, 1, Len(calls))
    /\ \A i \in 2..Len(calls) : \A j \in 1..(i - 1) : j <= Len(returned) /\ returned[j]

\* one of the first three stages has returned a failure value
UpstreamFailed == \E j \in 1..Len(returned) : j <= 3 /\ ~returned[j]

\* C8: in every execution of run() the stages are called in the order
\* fetch_pdf_url, download_pdf, extract_weather_data, save_data, each at most
\* once and only if every earlier stage returned a non-failure value; once one
\* of the first three has failed, save_data is not called and no step changes
\* the data file.
C8_StagesShortCircuit ==
    /\ [](StagesInOrder /\ (UpstreamFailed => ~Contains(calls, "save_data")))
    /\ [][(UpstreamFailed \/ UpstreamFailed') => file' = file]_vars

\* a run in which the extraction failed: three stages called, no save, the
\* earlier document still on disk
C8_Witness ==
    /\ pc = "done"
    /\ calls = <<"fetch_pdf_url", "download_pdf", "extract_weather_data">>
    /\ returned = <<TRUE, TRUE, FALSE>>
    /\ file = JsonFile(PriorRecord)

\* C9: whenever save_data has handed an object to json.dump, that object has
\* a last_updated key, and every other key of data has its original value.
C9_LastUpdatedWritten ==
    dumped # NoData =>
        /\ "last_updated" \in DOMAIN dumped
        /\ \A k \in DOMAIN data \ {"last_updated"} :
              k \in DOMAIN dumped /\ dumped[k] = data[k]

\* save_data has failed: its except branch has logged the error
SaveFailed == "save_data" \in {calls[i] : i \in 1..Len(calls)}
                  /\ "error: Error saving data" \in log

\* C10: a save_data that fails leaves a data file that held a complete JSON
\* document as it was: the document of the last successful save is still
\* there, not truncated and not partially overwritten.
C10_FileIntactAfterFailedSave ==
    [][(pc = "extracted" /\ file.kind = "json" /\ SaveFailed') => file' = file]_vars

\* a stage that returned a failure value has logged it
FailureLogged(i) ==
    CASE i = 1 -> \/ "error: Error fetching PDF URL" \in log
                  \/ "warning: PDF link not found." \in log
      [] i = 2 -> "error: Error downloading PDF" \in log
      [] i = 3 -> \/ "error: Error extracting data" \in log
                  \/ "error: PDF has no pages." \in log
      [] OTHER -> TRUE

\* run() has returned, or a step of the position it stands at can be taken
\* (visit_cell asks for nothing but a cell left in the row)
CanGoOn ==
    CASE pc = "start" -> ENABLED fetch_pdf_url
      [] pc = "fetched" -> ENABLED (download_pdf \/ run_return)
      [] pc = "downloaded" -> ENABLED (extract_open \/ run_return)
      [] pc = "tables" -> ENABLED extract_return
      [] pc = "rows" -> ENABLED end_table
      [] pc = "cells" -> idx < Len(row)
      [] pc = "extracted" -> ENABLED (save_data \/ run_return)
      [] OTHER -> pc = "done"

\* C11: no exception leaves run(): whatever fails in the page fetch, the PDF
\* download, the PDF parse, the extraction from a cell (a marker cell that is
\* the last of its row or has an absent neighbour included) or the file write,
\* run() never stands at an escaped exception and can always go on until it
\* returns; every stage that returned a failure value has logged it, and a
\* save that did not write the whole document has logged its error.
C11_NoExceptionEscapes ==
    /\ pc # "raised"
    /\ CanGoOn
    /\ \A i \in 1..Len(returned) : ~returned[i] => FailureLogged(i)
    /\ (pc = "done" /\ Contains(calls, "save_data") /\ file # JsonFile(data))
           => "error: Error saving data" \in log

\* run() has returned after a marker cell without neighbour was processed
\* (its value came from the text after the marker) and the save failed
C11_Witness ==
    /\ pc = "done"
    /\ data # NoData
    /\ data["weather_condition"] = <<"sonnig">>
    /\ file.kind = "partial"
    /\ "error: Error saving data" \in log

\* C12: for a document with zero pages extract_weather_data returns None
\* without raising and reports it ("PDF has no pages."); no record is built
\* and run() performs no save: nothing is handed to json.dump.
C12_NoPagesNoSave ==
    (pdf_file = "BytesIO: PDF without pages" /\ pc \in {"extracted", "done"}) =>
        /\ data = NoData
        /\ returned = <<TRUE, TRUE, FALSE>>
        /\ "error: PDF has no pages." \in log
        /\ calls = <<"fetch_pdf_url", "download_pdf", "extract_weather_data">>
        /\ dumped = NoData
        /\ file \in {Absent, JsonFile(PriorRecord)}

\* run() has returned after a document without pages
C12_Witness ==
    /\ pc = "done"
    /\ pdf_file = "BytesIO: PDF without pages"
    /\ data = NoData
    /\ file = JsonFile(PriorRecord)

\* C13: for a document with a first page whose cell stream has no tables, no
\* rows or only empty and absent cells, extract_weather_data returns a record
\* with all seven fields "Unknown", and run() goes on to save_data with that
\* record: it reaches json.dump unless os.makedirs or open failed.
C13_AllUnknownIsSaved ==
    layout = EmptyCells =>
        /\ data = SeedRecord
        /\ pc \in {"extracted", "done"} => (Len(returned) >= 3 /\ returned[3])
        /\ pc = "extracted" => has_data
        /\ pc = "done" =>
              /\ calls = Stages
              /\ dumped = SeedRecord \/ "error: Error saving data" \in log

\* run() has saved the all-"Unknown" record of a page without text cells
C13_Witness ==
    /\ pc = "done"
    /\ layout = EmptyCells
    /\ file = JsonFile(SeedRecord)
    /\ "info: Data saved successfully." \in log

\* an answer to GET /api/data has just been made
Answered == response = NoResponse /\ response' # NoResponse

\* the response has this status and an object with an "error" key as its body
ErrorResponse(r, status) ==
    /\ r.status_code = status
    /\ "error" \in DOMAIN r.content

Visiting ==
    /\ pc = "cells"
    /\ idx < Len(row)
    /\ Truthy(row[idx + 1])
    /\ ~CellRaises(row[idx + 1], idx, row)

\* what the cell at 0-based position ix of rw yields for field k on its own,
\* that is on a fresh record: Unknown when it yields nothing
OwnValue(k, ix, rw) == extract_from_cell(rw[ix + 1], ix, rw, SeedRecord)[k]

\* the cell's temperature comes from the next cell of the row
TemperatureFromNextCell(ix, rw) ==
    HasNextCell(ix, rw) /\ Contains(NextCell(ix, rw), "°C")

\* C16 as stated: when a cell yields a value for a field that an earlier cell
\* has set already, the record holds the later cell's value afterwards, for
\* all seven fields, temperature from the second line of the cell included.
C16_LastMatchWins ==
    [][Visiting =>
          \A k \in FieldKeys :
              (data[k] # Unknown /\ OwnValue(k, idx, row) # Unknown)
                  => data'[k] = OwnValue(k, idx, row)]_vars

\* C16, amended: when a cell yields a value for a field that an earlier cell
\* has set already, the record holds the later cell's value afterwards, except
\* for a temperature that the later cell has only on the line after its
\* marker line: that one is dropped and the earlier temperature stays.
C16_LastMatchWinsButSameCellTemperature ==
    [][Visiting =>
          \A k \in FieldKeys :
              (data[k] # Unknown /\ OwnValue(k, idx, row) # Unknown)
                  => data'[k] =
                         IF k = "temperature" /\ ~TemperatureFromNextCell(idx, row)
                         THEN data[k]
                         ELSE OwnValue(k, idx, row)]_vars

\* both cells of a row yield a value for the same field, the values differ,
\* and after the second cell the record holds the second one
C16_Witness ==
    /\ AfterCell
    /\ idx = 2
    /\ Truthy(row[1])
    /\ ~CellRaises(row[1], 0, row)
    /\ \E k \in FieldKeys :
           /\ OwnValue(k, 0, row) # Unknown
           /\ OwnValue(k, 1, row) # Unknown
           /\ OwnValue(k, 0, row) # OwnValue(k, 1, row)
           /\ data[k] = OwnValue(k, 1, row)

\* C17: for a cell containing "Temperatur", the trimmed next cell becomes the
\* temperature if it is non-empty and contains "°C"; otherwise a temperature
\* that is set already stays, the line after the marker line being used only
\* while temperature is "Unknown". So the temperature of every record is
\* "Unknown" or contains "°C".
C17_TemperatureHasUnit ==
    /\ [](data # NoData =>
              \/ data["temperature"] = Unknown
              \/ Contains(data["temperature"], "°C"))
    /\ [][(Visiting /\ Contains(row[idx + 1], "Temperatur")) =>
              IF TemperatureFromNextCell(idx, row)
              THEN data'["temperature"] = Strip(NextCell(idx, row))
              ELSE /\ data["temperature"] # Unknown
                      => data'["temperature"] = data["temperature"]
                   /\ data["temperature"] = Unknown
                      => data'["temperature"] =
                             TemperatureLines(Split(row[idx + 1], <<"\n">>), 1,
                                              SeedRecord)["temperature"]]_vars

\* a "Temperatur" cell was processed and the record has a temperature
C17_Witness ==
    /\ AfterCell
    /\ Contains(row[idx], "Temperatur")
    /\ data["temperature"] # Unknown
    /\ Contains(data["temperature"], "°C")

\* no value of the mapping is truthy
NoActiveSchedule(c) == ActiveIndex(c) = 0

\* the entry used has interval and unit, and a unit other than hours, minutes
\* and days
UnknownUnit(v) == Has(v, "interval") /\ Has(v, "unit") /\ v.unit \notin Units

\* the entry used has neither interval and unit nor times
NeitherKind(v) == ~(Has(v, "interval") /\ Has(v, "unit")) /\ ~Has(v, "times")

\* C18: after setup_schedule(scraper, config) returns, at least one job running
\* scraper.run is registered, for every config mapping; a config with no truthy
\* value, an unknown unit, or an entry with neither interval and unit nor
\* times gets the job "every 4 hours"; the entry used is the first one in
\* config order whose value is truthy.
C18_JobRegistered ==
    main_pc = "loop" =>
        /\ Len(jobs) >= 1
        /\ \A j \in 1..Len(jobs) : jobs[j].job_func = "scraper.run"
        /\ NoActiveSchedule(config) => jobs = <<EveryFourHours>>
        /\ ~NoActiveSchedule(config) =>
               LET v == config[ActiveIndex(config)].value IN
                   /\ UnknownUnit(v) => jobs = <<EveryFourHours>>
                   /\ NeitherKind(v) => jobs = <<EveryFourHours>>

====
